---- MODULE Spec2Model ----
(***************************************************************************)
(* State/persistence model of the BetMaster planner (src/App.tsx): the     *)
(* React component App, its state cells, its event handlers, the autosave  *)
(* effect, the manual save timers and the backup import.                   *)
(***************************************************************************)
EXTENDS Integers, Sequences, FiniteSets, TLC

(***************************************************************************)
(* Bounds of the model.                                                    *)
(***************************************************************************)
\* number of identifiers crypto.randomUUID() hands out in one run
MaxId == 2
\* longest games list the add button is pressed up to
MaxGames == 2
\* number of field edits (handleUpdateGame calls) in one run
MaxEdits == 1
\* number of field edits in one run of the editing scenarios
MaxScenarioEdits == 2

\* the calendar days that can be clicked, in a fixed order
KeyOrder == <<"d1", "d2">>
Dates == {KeyOrder[i] : i \in 1..Len(KeyOrder)}
\* the day the app is started on: format(new Date(), 'yyyy-MM-dd')
Today == "d1"

\* what the user types into the three text inputs
TextValues == [time |-> {"", "18:00"}, league |-> {"", "L"}, match |-> {"", "A vs B"}]
TextFields == {"time", "league", "match"}

(***************************************************************************)
(* JavaScript values the store cell can hold.  t is the value's kind; m is *)
(* the date -> DayPlan mapping of an object (empty for the other kinds).   *)
(***************************************************************************)
JNull == [t |-> "null", m |-> <<>>]
JNum == [t |-> "num", m |-> <<>>]
JArr == [t |-> "arr", m |-> <<>>]
JObj(m) == [t |-> "obj", m |-> m]
EmptyStore == JObj(<<>>)

\* typeof v === 'object' : true of objects, arrays and null
TypeofIsObject(v) == v.t \in {"obj", "arr", "null"}

\* { ...v } : the own enumerable properties of v (none for null, a number, [])
Spread(v) == IF v.t = "obj" THEN v.m ELSE <<>>

\* the GameEntry createNewGame() returns when randomUUID() returns id
createNewGame(id) ==
  [id |-> id, time |-> "", league |-> "", match |-> "", status |-> "pending"]

\* the n-th identifier crypto.randomUUID() returns
Uuid(n) == ToString(n)

(***************************************************************************)
(* JSON text: a sequence of tokens <<kind, payload>>.                      *)
(***************************************************************************)
P(c) == <<"p", c>>
S(s) == <<"s", s>>
NullTok == <<"k", "null">>
NumTok == <<"n", "42">>

EntryKeys == <<"id", "time", "league", "match", "status">>

\* the texts of xs joined with commas
RECURSIVE Join(_)
Join(xs) ==
  IF xs = <<>> THEN <<>>
  ELSE IF Len(xs) = 1 THEN xs[1]
  ELSE xs[1] \o <<P(",")>> \o Join(Tail(xs))

SerEntry(g) ==
  <<P("{")>> \o
  Join([k \in 1..Len(EntryKeys) |-> <<S(EntryKeys[k]), P(":"), S(g[EntryKeys[k]])>>]) \o
  <<P("}")>>

\* a serialization that writes the entries of a plan last to first
SerPlan_Reversed(p) ==
  <<P("{"), S("date"), P(":"), S(p.date), P(","), S("games"), P(":"), P("[")>> \o
  Join([i \in 1..Len(p.games) |-> SerEntry(p.games[Len(p.games) + 1 - i])]) \o
  <<P("]"), P("}")>>

SerPlan(p) ==
  <<P("{"), S("date"), P(":"), S(p.date), P(","), S("games"), P(":"), P("[")>> \o
  Join([i \in 1..Len(p.games) |-> SerEntry(p.games[i])]) \o
  <<P("]"), P("}")>>

\* JSON.stringify(v)
Serialize(v) ==
  CASE v.t = "null" -> <<NullTok>>
    [] v.t = "num" -> <<NumTok>>
    [] v.t = "arr" -> <<P("["), P("]")>>
    [] OTHER ->
       LET keys == SelectSeq(KeyOrder, LAMBDA k : k \in DOMAIN v.m)
       IN <<P("{")>> \o
          Join([i \in 1..Len(keys) |-> <<S(keys[i]), P(":")>> \o SerPlan(v.m[keys[i]])]) \o
          <<P("}")>>

(***************************************************************************)
(* JSON.parse: a recursive-descent parser over the tokens.  Each parser    *)
(* returns [ok, v, next]: whether a value starts at position i, the value  *)
(* and the position after it.                                              *)
(***************************************************************************)
Tok(t, i) == IF i \in 1..Len(t) THEN t[i] ELSE <<"eof", "">>
Fail == [ok |-> FALSE, v |-> <<>>, next |-> 0]

ParseEntry(t, i) ==
  IF /\ Tok(t, i) = P("{")
     /\ \A k \in 1..5 :
          /\ Tok(t, i + 4 * k - 3) = S(EntryKeys[k])
          /\ Tok(t, i + 4 * k - 2) = P(":")
          /\ Tok(t, i + 4 * k - 1)[1] = "s"
          /\ Tok(t, i + 4 * k) = IF k < 5 THEN P(",") ELSE P("}")
  THEN [ok |-> TRUE,
        v |-> [id |-> t[i + 3][2], time |-> t[i + 7][2], league |-> t[i + 11][2],
               match |-> t[i + 15][2], status |-> t[i + 19][2]],
        next |-> i + 21]
  ELSE Fail

\* the elements of an array after its "[", acc the ones read so far; e is the
\* element read at the current position
RECURSIVE ParseEntries(_, _, _)
EntriesAfter(t, acc, e) ==
  IF ~e.ok THEN Fail
  ELSE IF Tok(t, e.next) = P(",") THEN ParseEntries(t, e.next + 1, Append(acc, e.v))
  ELSE IF Tok(t, e.next) = P("]") THEN [ok |-> TRUE, v |-> Append(acc, e.v), next |-> e.next + 1]
  ELSE Fail

ParseEntries(t, i, acc) == EntriesAfter(t, acc, ParseEntry(t, i))

ParseGames(t, i) ==
  IF Tok(t, i) # P("[") THEN Fail
  ELSE IF Tok(t, i + 1) = P("]") THEN [ok |-> TRUE, v |-> <<>>, next |-> i + 2]
  ELSE ParseEntries(t, i + 1, <<>>)

\* the DayPlan whose "date" string is at i + 3 and whose games array parsed as g
PlanOf(t, i, g) ==
  IF g.ok /\ Tok(t, g.next) = P("}")
  THEN [ok |-> TRUE, v |-> [date |-> t[i + 3][2], games |-> g.v], next |-> g.next + 1]
  ELSE Fail

ParsePlan(t, i) ==
  IF /\ Tok(t, i) = P("{")
     /\ Tok(t, i + 1) = S("date")
     /\ Tok(t, i + 2) = P(":")
     /\ Tok(t, i + 3)[1] = "s"
     /\ Tok(t, i + 4) = P(",")
     /\ Tok(t, i + 5) = S("games")
     /\ Tok(t, i + 6) = P(":")
  THEN PlanOf(t, i, ParseGames(t, i + 7))
  ELSE Fail

\* the members of an object after its "{", acc the key/value pairs read so far; p is
\* the value read for the key at i
RECURSIVE ParseMembers(_, _, _)
MembersAfter(t, i, acc, p) ==
  IF ~p.ok THEN Fail
  ELSE IF Tok(t, p.next) = P(",") THEN ParseMembers(t, p.next + 1, Append(acc, <<t[i][2], p.v>>))
  ELSE IF Tok(t, p.next) = P("}")
       THEN [ok |-> TRUE, v |-> Append(acc, <<t[i][2], p.v>>), next |-> p.next + 1]
  ELSE Fail

ParseMembers(t, i, acc) ==
  IF Tok(t, i)[1] = "s" /\ Tok(t, i + 1) = P(":")
  THEN MembersAfter(t, i, acc, ParsePlan(t, i + 2))
  ELSE Fail

\* the value of the last pair of pairs whose key is k
RECURSIVE LastValue(_, _)
LastValue(pairs, k) ==
  IF pairs[Len(pairs)][1] = k THEN pairs[Len(pairs)][2]
  ELSE LastValue(SubSeq(pairs, 1, Len(pairs) - 1), k)

\* the object a list of key/value pairs denotes: a repeated key keeps its last value
PairsToMap(pairs) ==
  [k \in {pairs[j][1] : j \in 1..Len(pairs)} |-> LastValue(pairs, k)]

ObjectOf(r) ==
  IF r.ok THEN [ok |-> TRUE, v |-> JObj(PairsToMap(r.v)), next |-> r.next] ELSE Fail

ParseObject(t) ==
  IF Tok(t, 1) # P("{") THEN Fail
  ELSE IF Tok(t, 2) = P("}") THEN [ok |-> TRUE, v |-> EmptyStore, next |-> 3]
  ELSE ObjectOf(ParseMembers(t, 2, <<>>))

ParseValue(t) ==
  CASE Tok(t, 1) = NullTok -> [ok |-> TRUE, v |-> JNull, next |-> 2]
    [] Tok(t, 1) = NumTok -> [ok |-> TRUE, v |-> JNum, next |-> 2]
    [] Tok(t, 1) = P("[") ->
         IF Tok(t, 2) = P("]") THEN [ok |-> TRUE, v |-> JArr, next |-> 3] ELSE Fail
    [] OTHER -> ParseObject(t)

\* the whole text must be one value: anything after it is a SyntaxError
WholeText(t, r) ==
  IF r.ok /\ r.next = Len(t) + 1 THEN [ok |-> TRUE, v |-> r.v] ELSE [ok |-> FALSE, v |-> JNull]

\* JSON.parse(t): [ok |-> FALSE] stands for the SyntaxError it throws
Parse(t) == WholeText(t, ParseValue(t))

(***************************************************************************)
(* The files and backing-store contents the environment can supply.        *)
(***************************************************************************)
FilledGame == [id |-> "s1", time |-> "18:00", league |-> "L", match |-> "A vs B", status |-> "win"]
\* a backup with one filled day
BackupStore == JObj([d \in {"d1"} |-> [date |-> "d1", games |-> <<FilledGame>>]])
\* {"d2": {"date": "d2", "games": []}} : a day whose entry list is empty
EmptyGamesStore == JObj([d \in {"d2"} |-> [date |-> "d2", games |-> <<>>]])
\* a text cut short before its last token, as a truncated write or download leaves it
Truncated(t) == SubSeq(t, 1, Len(t) - 1)

ImportFiles ==
  { Serialize(BackupStore), Serialize(EmptyGamesStore), Serialize(EmptyStore),
    Serialize(JNull), Serialize(JNum), Serialize(JArr),
    Truncated(Serialize(BackupStore)), <<>> }

\* localStorage.getItem('bet_planner_data') at start: null, or the string stored
NoItem == [present |-> FALSE, text |-> <<>>]
Item(t) == [present |-> TRUE, text |-> t]
StartupItems ==
  { NoItem, Item(<<>>), Item(Serialize(EmptyStore)), Item(Serialize(BackupStore)),
    Item(Truncated(Serialize(BackupStore))) }

(***************************************************************************)
(* The state of the page.                                                  *)
(***************************************************************************)
VARIABLES
  phase,            \* "boot" before App mounts, "running", "pending" while a scheduled render
                    \* has not run yet, or the uncaught error that unmounted the tree
  backing,          \* localStorage['bet_planner_data']
  appData,          \* useState<AppData>
  selectedDate,     \* useState<string | null>
  selectedDayPlan,  \* the useMemo value of the last render, which the handlers close over
  nextId,           \* how many identifiers randomUUID() has handed out, plus one
  saveStatus,       \* useState<'idle' | 'saving' | 'saved'>
  saveTimer,        \* the pending setTimeout of handleManualSave: "none", "t800", "t2000"
  isAnalyzing,      \* useState(false)
  aiAnalysis,       \* useState<string | null>: "null" or the text shown
  edits,            \* how many field edits were made, bounded by MaxEdits
  alertMsg,         \* the alert() or confirm() text the last step showed, "" for none
  request,          \* the generateContent call in flight, or NoRequest
  currentDate,      \* useState(new Date()): the month shown, counted from today's month
  effect            \* what the last step wrote outside the page (clipboard, download)

vars == <<phase, backing, appData, selectedDate, selectedDayPlan, nextId, saveStatus,
          saveTimer, isAnalyzing, aiAnalysis, edits, alertMsg, request, currentDate, effect>>

saveVars == <<saveStatus, saveTimer>>
aiVars == <<isAnalyzing, aiAnalysis, request>>

\* no generateContent call is in flight
NoRequest == [sent |-> FALSE, date |-> "", lines |-> <<>>]
\* the last step wrote nothing outside the page
NoEffect == [kind |-> "none", text |-> <<>>]

NoPlan == [date |-> "", games |-> <<>>]

\* an uncaught error in the initializer, in render or in an effect unmounts the tree
Crashed == phase \in {"initError", "renderError", "effectError"}

Init ==
  /\ phase = "boot"
  /\ backing \in StartupItems
  /\ appData = EmptyStore
  /\ selectedDate = Today
  /\ selectedDayPlan = NoPlan
  /\ nextId = 1
  /\ saveStatus = "idle"
  /\ saveTimer = "none"
  /\ isAnalyzing = FALSE
  /\ aiAnalysis = "null"
  /\ edits = 0
  /\ request = NoRequest
  /\ currentDate = 0
  /\ effect = NoEffect
  /\ alertMsg = ""

(***************************************************************************)
(* Rendering: the selectedDayPlan memo and the autosave effect.            *)
(***************************************************************************)
\* appData[d] throws a TypeError when appData is null
RenderThrows(ad) == ad.t = "null"

\* appData[d] is undefined (falsy): the memo falls back to a placeholder day
NeedsPlaceholder(ad, d) == ~(ad.t = "obj" /\ d \in DOMAIN ad.m)

\* useMemo(() => appData[selectedDate] || {date, games: [createNewGame()]})
selectedDayPlanOf(ad, d, id) ==
  IF NeedsPlaceholder(ad, d) THEN [date |-> d, games |-> <<createNewGame(id)>>] ELSE ad.m[d]

\* mutant: the effect only schedules the write and leaves the backing store alone
AutosaveEffect_Deferred(ad, ok) ==
  /\ UNCHANGED backing
  /\ phase' = IF ok THEN "running" ELSE "effectError"

\* mutant: the effect writes the store of the previous render
AutosaveEffect_Stale(ad, ok) ==
  IF ok
  THEN /\ backing' = Item(Serialize(appData))
       /\ phase' = "running"
  ELSE /\ UNCHANGED backing
       /\ phase' = "effectError"

\* localStorage.setItem('bet_planner_data', JSON.stringify(ad)) in the effect: a
\* write that throws (quota exceeded) is not caught, and React unmounts the tree
AutosaveEffect(ad, ok) ==
  IF ok
  THEN /\ backing' = Item(Serialize(ad))
       /\ phase' = "running"
  ELSE /\ UNCHANGED backing
       /\ phase' = "effectError"

\* the render and the effect that follow setAppData(ad); n is the next free identifier
Commit(ad, n) ==
  /\ appData' = ad
  /\ IF RenderThrows(ad)
     THEN /\ phase' = "renderError"
          /\ nextId' = n
          /\ UNCHANGED <<selectedDayPlan, backing>>
     ELSE /\ NeedsPlaceholder(ad, selectedDate) => n <= MaxId
          /\ selectedDayPlan' = selectedDayPlanOf(ad, selectedDate, Uuid(n))
          /\ nextId' = IF NeedsPlaceholder(ad, selectedDate) THEN n + 1 ELSE n
          /\ \E ok \in BOOLEAN : AutosaveEffect(ad, ok)

\* prev => ({ ...prev, [d]: plan })
SetKey(prev, d, plan) ==
  JObj([k \in DOMAIN Spread(prev) \cup {d} |-> IF k = d THEN plan ELSE Spread(prev)[k]])

(***************************************************************************)
(* Startup: the useState initializer, the first render, the first effect.  *)
(***************************************************************************)
\* saved ? JSON.parse(saved) : {}   ([ok |-> FALSE]: JSON.parse threw)
InitialAppData(item) ==
  IF item.present /\ item.text # <<>> THEN Parse(item.text) ELSE [ok |-> TRUE, v |-> EmptyStore]

Mount ==
  /\ phase = "boot"
  /\ LET r == InitialAppData(backing) IN
     IF r.ok
     THEN Commit(r.v, nextId)
     ELSE /\ phase' = "initError"
          /\ UNCHANGED <<appData, selectedDayPlan, nextId, backing>>
  /\ alertMsg' = ""
  /\ effect' = NoEffect
  /\ UNCHANGED <<currentDate, selectedDate, saveVars, aiVars, edits>>

(***************************************************************************)
(* The editing handlers.                                                   *)
(***************************************************************************)
\* mutant: the edited entry is the only one kept
UpdatedPlan_DropsTheOthers(plan, index, field, value) ==
  [plan EXCEPT !.games = <<[plan.games[index] EXCEPT ![field] = value]>>]

\* newGames[index] = { ...newGames[index], [field]: value }
UpdatedPlan(plan, index, field, value) ==
  [plan EXCEPT !.games = [plan.games EXCEPT ![index] = [plan.games[index] EXCEPT ![field] = value]]]

\* the handler is the one built by the last render: selectedDayPlan is the plan
\* that render saw, appData the store the updater function receives as prev
handleUpdateGame(index, field, value) ==
  /\ phase \in {"running", "pending"}
  /\ index \in 1..Len(selectedDayPlan.games)
  /\ edits' = edits + 1
  /\ Commit(SetKey(appData, selectedDate, UpdatedPlan(selectedDayPlan, index, field, value)), nextId)
  /\ alertMsg' = ""
  /\ effect' = NoEffect
  /\ UNCHANGED <<currentDate, selectedDate, saveVars, aiVars>>

\* typing into one of the text inputs: onChange fires with a changed value
TypeText ==
  /\ edits < MaxEdits
  /\ \E index \in 1..Len(selectedDayPlan.games), field \in TextFields :
       \E value \in TextValues[field] \ {selectedDayPlan.games[index][field]} :
         handleUpdateGame(index, field, value)

\* the win and loss buttons toggle the status
ToggleStatus ==
  /\ edits < MaxEdits
  /\ \E index \in 1..Len(selectedDayPlan.games), button \in {"win", "loss"} :
       handleUpdateGame(index, "status",
                        IF selectedDayPlan.games[index].status = button THEN "pending" ELSE button)

\* mutant: the new entry takes the place of what the day showed
AddedPlan_Alone(plan, id) == [plan EXCEPT !.games = <<createNewGame(id)>>]

\* games: [...currentPlan.games, createNewGame()]
AddedPlan(plan, id) == [plan EXCEPT !.games = Append(plan.games, createNewGame(id))]

handleAddGame ==
  /\ phase = "running"
  /\ Len(selectedDayPlan.games) < MaxGames
  /\ nextId <= MaxId
  /\ Commit(SetKey(appData, selectedDate, AddedPlan(selectedDayPlan, Uuid(nextId))), nextId + 1)
  /\ alertMsg' = ""
  /\ effect' = NoEffect
  /\ UNCHANGED <<currentDate, selectedDate, saveVars, aiVars, edits>>

\* mutant: the first entry is dropped, whichever id was asked for
WithoutGame_DropsFirst(games, id) == Tail(games)

\* selectedDayPlan.games.filter(g => g.id !== id)
WithoutGame(games, id) == SelectSeq(games, LAMBDA g : g.id # id)

\* mutant: the filtered list is stored as it is, even when empty
FinalGames_NoBlank(newGames, freshId) == newGames

\* newGames.length === 0 ? [createNewGame()] : newGames
FinalGames(newGames, freshId) == IF newGames = <<>> THEN <<createNewGame(freshId)>> ELSE newGames

handleRemoveGame(id) ==
  /\ phase = "running"
  /\ LET newGames == WithoutGame(selectedDayPlan.games, id)
         used == IF newGames = <<>> THEN 1 ELSE 0
     IN /\ used = 1 => nextId <= MaxId
        /\ Commit(SetKey(appData, selectedDate,
                         [selectedDayPlan EXCEPT !.games = FinalGames(newGames, Uuid(nextId))]),
                  nextId + used)
  /\ alertMsg' = ""
  /\ effect' = NoEffect
  /\ UNCHANGED <<currentDate, selectedDate, saveVars, aiVars, edits>>

\* the trash button of one of the rendered games
RemoveGame ==
  \E index \in 1..Len(selectedDayPlan.games) : handleRemoveGame(selectedDayPlan.games[index].id)

\* mutant: the day is left with no entry at all
ClearedPlan_NoEntry(date, id) == [date |-> date, games |-> <<>>]

\* { date: selectedDate, games: [createNewGame()] }
ClearedPlan(date, id) == [date |-> date, games |-> <<createNewGame(id)>>]

\* the question window.confirm asks
ClearPrompt == "Limpar todos os jogos deste dia?"

\* mutant: the day is cleared whatever window.confirm returned
handleClearDay_Unasked(confirmed) ==
  /\ phase = "running"
  /\ nextId <= MaxId
  /\ Commit(SetKey(appData, selectedDate, ClearedPlan(selectedDate, Uuid(nextId))), nextId + 1)
  /\ aiAnalysis' = "null"
  /\ UNCHANGED <<isAnalyzing, request>>
  /\ alertMsg' = ClearPrompt
  /\ effect' = NoEffect
  /\ UNCHANGED <<currentDate, selectedDate, saveVars, edits>>

\* confirmed: what window.confirm returned
handleClearDay(confirmed) ==
  /\ phase = "running"
  /\ IF confirmed
     THEN /\ nextId <= MaxId
          /\ Commit(SetKey(appData, selectedDate, ClearedPlan(selectedDate, Uuid(nextId))), nextId + 1)
          /\ aiAnalysis' = "null"
          /\ UNCHANGED <<isAnalyzing, request>>
     ELSE UNCHANGED <<phase, appData, selectedDayPlan, nextId, backing, aiVars>>
  /\ alertMsg' = ClearPrompt
  /\ effect' = NoEffect
  /\ UNCHANGED <<currentDate, selectedDate, saveVars, edits>>

ClearDay == \E confirmed \in BOOLEAN : handleClearDay(confirmed)

\* mutant: the plan shown for the clicked day is written into the store
SelectDate_Materializes(d) ==
  /\ phase = "running"
  /\ currentDate = 0
  /\ selectedDate' = d
  /\ aiAnalysis' = "null"
  /\ NeedsPlaceholder(appData, d) => nextId <= MaxId
  /\ selectedDayPlan' = selectedDayPlanOf(appData, d, Uuid(nextId))
  /\ appData' = SetKey(appData, d, selectedDayPlanOf(appData, d, Uuid(nextId)))
  /\ nextId' = IF NeedsPlaceholder(appData, d) THEN nextId + 1 ELSE nextId
  /\ alertMsg' = ""
  /\ effect' = NoEffect
  /\ UNCHANGED <<phase, backing, currentDate, saveVars, isAnalyzing, request, edits>>

\* a day cell's onClick: setSelectedDate(dayStr); setAiAnalysis(null).  The cells
\* are those of currentMonthDays: the days of Dates lie in today's month
SelectDate(d) ==
  /\ phase = "running"
  /\ currentDate = 0
  /\ selectedDate' = d
  /\ aiAnalysis' = "null"
  /\ IF d = selectedDate
     THEN UNCHANGED <<selectedDayPlan, nextId>>
     ELSE /\ NeedsPlaceholder(appData, d) => nextId <= MaxId
          /\ selectedDayPlan' = selectedDayPlanOf(appData, d, Uuid(nextId))
          /\ nextId' = IF NeedsPlaceholder(appData, d) THEN nextId + 1 ELSE nextId
  /\ alertMsg' = ""
  /\ effect' = NoEffect
  /\ UNCHANGED <<phase, appData, backing, currentDate, saveVars, isAnalyzing, request, edits>>

ClickDay == \E d \in Dates : SelectDate(d)

(***************************************************************************)
(* Manual save and its two timers.                                         *)
(***************************************************************************)
\* ok: whether localStorage.setItem returned; when it throws, the handler ends
\* there, after setSaveStatus('saving') and before any setTimeout
handleManualSave(ok) ==
  /\ phase = "running"
  /\ saveStatus = "idle"
  /\ saveStatus' = "saving"
  /\ IF ok
     THEN /\ backing' = Item(Serialize(appData))
          /\ saveTimer' = "t800"
     ELSE UNCHANGED <<backing, saveTimer>>
  /\ alertMsg' = ""
  /\ effect' = NoEffect
  /\ UNCHANGED <<phase, appData, selectedDate, selectedDayPlan, nextId, aiVars, edits, currentDate>>

ManualSave == \E ok \in BOOLEAN : handleManualSave(ok)

\* mutant: the first timer shows 'saved' and never arms the second
SavedTimer_NoSecondTimer ==
  /\ phase = "running"
  /\ saveTimer = "t800"
  /\ saveStatus' = "saved"
  /\ saveTimer' = "none"
  /\ alertMsg' = ""
  /\ effect' = NoEffect
  /\ UNCHANGED <<phase, backing, appData, selectedDate, selectedDayPlan, nextId, aiVars, edits, currentDate>>

\* setTimeout(() => { setSaveStatus('saved'); setTimeout(..., 2000) }, 800)
SavedTimer ==
  /\ phase = "running"
  /\ saveTimer = "t800"
  /\ saveStatus' = "saved"
  /\ saveTimer' = "t2000"
  /\ alertMsg' = ""
  /\ effect' = NoEffect
  /\ UNCHANGED <<phase, backing, appData, selectedDate, selectedDayPlan, nextId, aiVars, edits, currentDate>>

\* setTimeout(() => setSaveStatus('idle'), 2000)
IdleTimer ==
  /\ phase = "running"
  /\ saveTimer = "t2000"
  /\ saveStatus' = "idle"
  /\ saveTimer' = "none"
  /\ alertMsg' = ""
  /\ effect' = NoEffect
  /\ UNCHANGED <<phase, backing, appData, selectedDate, selectedDayPlan, nextId, aiVars, edits, currentDate>>

(***************************************************************************)
(* Import of a backup file: reader.onload.                                 *)
(***************************************************************************)
ImportOk == "Backup importado com sucesso!"
ImportError == "Erro ao importar arquivo."

\* whether the parsed value is handed to setAppData: typeof json === 'object'
Accepts(json) == TypeofIsObject(json)

\* mutant: the backup is merged into the store, the file winning on a shared key
ImportedStore_Merge(prev, json) ==
  IF json.t = "obj"
  THEN JObj([k \in DOMAIN Spread(prev) \cup DOMAIN json.m |->
              IF k \in DOMAIN json.m THEN json.m[k] ELSE Spread(prev)[k]])
  ELSE json

\* setAppData(json): the new store is the parsed value, whatever the store was
ImportedStore(prev, json) == json

\* JSON.parse(e.target?.result as string), tabulated over the files
ParsedFiles == [f \in ImportFiles |-> Parse(f)]

\* JSON.parse of the content of any file
ParsedFile(file) == IF file \in ImportFiles THEN ParsedFiles[file] ELSE Parse(file)

importData(file) ==
  /\ phase = "running"
  /\ UNCHANGED <<currentDate, selectedDate, saveVars, aiVars, edits>>
  /\ effect' = NoEffect
  /\ LET r == ParsedFile(file) IN
     IF ~r.ok
     THEN /\ alertMsg' = ImportError
          /\ UNCHANGED <<phase, appData, selectedDayPlan, nextId, backing>>
     ELSE IF Accepts(r.v)
     THEN /\ alertMsg' = ImportOk
          /\ Commit(ImportedStore(appData, r.v), nextId)
     ELSE /\ alertMsg' = ""
          /\ UNCHANGED <<phase, appData, selectedDayPlan, nextId, backing>>

Import == \E file \in ImportFiles : importData(file)

Next ==
  \/ Mount
  \/ TypeText
  \/ ToggleStatus
  \/ handleAddGame
  \/ RemoveGame
  \/ ClearDay
  \/ ClickDay
  \/ ManualSave
  \/ SavedTimer
  \/ IdleTimer
  \/ Import

Spec == Init /\ [][Next]_vars

\* the timers of handleManualSave fire once their delay has passed
FairSpec == Spec /\ WF_vars(SavedTimer) /\ WF_vars(IdleTimer)

(***************************************************************************)
(* The advisory service (analyzeDayPicks) and its caller handleAiAnalyze.   *)
(***************************************************************************)
NothingMsg == "Adicione jogos para receber uma analise da IA."
NoTextMsg == "Nao foi possivel gerar analise no momento."
ConnErrMsg == "Erro ao conectar com a inteligencia artificial."
\* response.text of a call that succeeded with a text
AnalysisText == "analysis"
\* how a generateContent call ends: with a text, with no text, or by throwing
Outcomes == {"text", "empty", "error"}

\* `- ${g.time}: ${g.match} (${g.league})`
PromptLine(g) == [time |-> g.time, match |-> g.match, league |-> g.league]

\* mutant: every entry gets a line, whatever its fields hold
gamesText_Unfiltered(dayPlan) ==
  [i \in 1..Len(dayPlan.games) |-> PromptLine(dayPlan.games[i])]

\* dayPlan.games.filter(g => g.match && g.league).map(...).join('\n'), as its lines
gamesText(dayPlan) ==
  LET kept == SelectSeq(dayPlan.games, LAMBDA g : g.match # "" /\ g.league # "")
  IN [i \in 1..Len(kept) |-> PromptLine(kept[i])]

\* mutant: a call that throws is answered with the text of a success
Returned_ErrorAsText(outcome) == IF outcome = "empty" THEN NoTextMsg ELSE AnalysisText

\* response.text || "...", and the catch branch of analyzeDayPicks
Returned(outcome) ==
  CASE outcome = "text" -> AnalysisText
    [] outcome = "empty" -> NoTextMsg
    [] OTHER -> ConnErrMsg

\* handleAiAnalyze up to the await: setIsAnalyzing(true), setAiAnalysis(null), and
\* analyzeDayPicks up to its request.  With no line to send, analyzeDayPicks returns
\* at once and the handler finishes in the same turn.  One call at a time: the
\* button is disabled while isAnalyzing.
handleAiAnalyze ==
  /\ phase = "running"
  /\ request = NoRequest
  /\ IF gamesText(selectedDayPlan) = <<>>
     THEN /\ aiAnalysis' = NothingMsg
          /\ isAnalyzing' = FALSE
          /\ UNCHANGED request
     ELSE /\ aiAnalysis' = "null"
          /\ isAnalyzing' = TRUE
          /\ request' = [sent |-> TRUE, date |-> selectedDayPlan.date,
                         lines |-> gamesText(selectedDayPlan)]
  /\ alertMsg' = ""
  /\ effect' = NoEffect
  /\ UNCHANGED <<phase, backing, appData, selectedDate, selectedDayPlan, nextId, saveVars,
                 edits, currentDate>>

\* disabled={isAnalyzing || !selectedDayPlan?.games.some(g => g.match)}
AnalyzeEnabled ==
  /\ ~isAnalyzing
  /\ \E i \in 1..Len(selectedDayPlan.games) : selectedDayPlan.games[i].match # ""

\* a click on the analyze button
ClickAnalyze == AnalyzeEnabled /\ handleAiAnalyze

\* the generateContent call ends and handleAiAnalyze resumes after its await:
\* setAiAnalysis(result), then setIsAnalyzing(false) in the finally block
AiResponse(outcome) ==
  /\ phase = "running"
  /\ request # NoRequest
  /\ request' = NoRequest
  /\ aiAnalysis' = Returned(outcome)
  /\ isAnalyzing' = FALSE
  /\ alertMsg' = ""
  /\ effect' = NoEffect
  /\ UNCHANGED <<phase, backing, appData, selectedDate, selectedDayPlan, nextId, saveVars,
                 edits, currentDate>>

AiResponds == \E outcome \in Outcomes : AiResponse(outcome)

(***************************************************************************)
(* Share, export and month navigation.                                     *)
(***************************************************************************)
ShareEmptyMsg == "Adicione jogos para compartilhar!"
ShareOkMsg == "Resumo copiado para a area de transferencia!"

\* the summary put together by handleShare, as its date and one line per active game
ShareText(dayPlan) ==
  LET activeGames == SelectSeq(dayPlan.games, LAMBDA g : g.match # "")
  IN <<dayPlan.date>> \o [i \in 1..Len(activeGames) |-> PromptLine(activeGames[i])]

handleShare ==
  /\ phase = "running"
  /\ IF Len(ShareText(selectedDayPlan)) = 1
     THEN /\ alertMsg' = ShareEmptyMsg
          /\ effect' = NoEffect
     ELSE /\ alertMsg' = ShareOkMsg
          /\ effect' = [kind |-> "clipboard", text |-> ShareText(selectedDayPlan)]
  /\ UNCHANGED <<phase, backing, appData, selectedDate, selectedDayPlan, nextId, saveVars,
                 aiVars, edits, currentDate>>

\* JSON.stringify(appData, null, 2) offered as a download
exportData ==
  /\ phase = "running"
  /\ effect' = [kind |-> "download", text |-> Serialize(appData)]
  /\ alertMsg' = ""
  /\ UNCHANGED <<phase, backing, appData, selectedDate, selectedDayPlan, nextId, saveVars,
                 aiVars, edits, currentDate>>

\* the months the calendar is moved through: last month, today's, next month
Months == {0 - 1, 0, 1}

\* setCurrentDate(subMonths(currentDate, 1)) and setCurrentDate(addMonths(currentDate, 1))
MoveMonth(by) ==
  /\ phase = "running"
  /\ currentDate + by \in Months
  /\ currentDate' = currentDate + by
  /\ alertMsg' = ""
  /\ effect' = NoEffect
  /\ UNCHANGED <<phase, backing, appData, selectedDate, selectedDayPlan, nextId, saveVars,
                 aiVars, edits>>

PrevMonth == MoveMonth(0 - 1)
NextMonth == MoveMonth(1)

(***************************************************************************)
(* The application around the analysis: typing, clear, day click, import,  *)
(* analysis, share, export, month navigation (the manual save and the add  *)
(* and remove buttons are left to Spec and EditSpec).                      *)
(***************************************************************************)
AdvisoryNext ==
  \/ Mount
  \/ TypeText
  \/ ClearDay
  \/ ClickDay
  \/ Import
  \/ ClickAnalyze
  \/ AiResponds
  \/ handleShare
  \/ exportData
  \/ PrevMonth
  \/ NextMonth

AdvisorySpec == Init /\ [][AdvisoryNext]_vars

(***************************************************************************)
(* analyzeDayPicks applied to every day plan within the bounds, also those  *)
(* for which the analyze button is disabled (the function is exported).     *)
(***************************************************************************)
\* the entries a day can hold: every combination of the typed fields
ServiceEntries ==
  [time : TextValues.time, league : TextValues.league, match : TextValues.match]

ServicePlans ==
  {[date |-> Today,
    games |-> [i \in 1..Len(gs) |->
                 [id |-> Uuid(i), time |-> gs[i].time, league |-> gs[i].league,
                  match |-> gs[i].match, status |-> "pending"]]] :
     gs \in UNION {[1..n -> ServiceEntries] : n \in 0..MaxGames}}

\* the application showing a stored day, the plan being any of ServicePlans
ServiceInit ==
  \E plan \in ServicePlans :
    /\ phase = "running"
    /\ appData = JObj([d \in {Today} |-> plan])
    /\ backing = Item(Serialize(JObj([d \in {Today} |-> plan])))
    /\ selectedDate = Today
    /\ selectedDayPlan = plan
    /\ nextId = Len(plan.games) + 1
    /\ saveStatus = "idle"
    /\ saveTimer = "none"
    /\ isAnalyzing = FALSE
    /\ aiAnalysis = "null"
    /\ edits = 0
    /\ alertMsg = ""
    /\ request = NoRequest
    /\ currentDate = 0
    /\ effect = NoEffect

ServiceNext ==
  \/ handleAiAnalyze
  \/ AiResponds

ServiceSpec == ServiceInit /\ [][ServiceNext]_vars

(***************************************************************************)
(* The editing scenarios: a first start (nothing stored) followed by adds,  *)
(* removals, day clicks and up to MaxScenarioEdits typed fields.            *)
(***************************************************************************)
EditInit == Init /\ backing = NoItem

\* typing into a text input, within the budget of the scenarios
ScenarioType ==
  /\ edits < MaxScenarioEdits
  /\ \E index \in 1..Len(selectedDayPlan.games), field \in TextFields :
       \E value \in TextValues[field] \ {selectedDayPlan.games[index][field]} :
         handleUpdateGame(index, field, value)

EditNext ==
  \/ Mount
  \/ ScenarioType
  \/ handleAddGame
  \/ RemoveGame
  \/ ClickDay

EditSpec == EditInit /\ [][EditNext]_vars

(***************************************************************************)
(* Backups: a first start, editing, export, and the import of the file     *)
(* just exported or of a file written elsewhere.                           *)
(***************************************************************************)
\* a backup written by hand: the plan under the key d1 carries the date d2
MismatchedStore == JObj([d \in {"d1"} |-> [date |-> "d2", games |-> <<FilledGame>>]])

ForeignFiles == {Serialize(MismatchedStore)}

\* the file chosen is the one exportData has just offered for download
ImportExported ==
  /\ effect.kind = "download"
  /\ importData(effect.text)

\* the file chosen was written elsewhere
ImportForeign == \E file \in ForeignFiles : importData(file)

BackupNext ==
  \/ Mount
  \/ ScenarioType
  \/ handleAddGame
  \/ RemoveGame
  \/ ClearDay
  \/ ClickDay
  \/ exportData
  \/ ImportExported
  \/ ImportForeign

BackupSpec == EditInit /\ [][BackupNext]_vars

(***************************************************************************)
(* The import seen from the scheduler: reader.onload runs outside any      *)
(* React event, so its setAppData(json) only schedules the render; an      *)
(* input event can be delivered before that render runs.                   *)
(***************************************************************************)
\* reader.onload up to its return: the update is queued, the view is not redrawn
readerOnload(file) ==
  /\ phase = "running"
  /\ UNCHANGED <<currentDate, selectedDate, saveVars, aiVars, edits,
                 selectedDayPlan, nextId, backing>>
  /\ effect' = NoEffect
  /\ LET r == ParsedFile(file) IN
     IF ~r.ok
     THEN /\ alertMsg' = ImportError
          /\ UNCHANGED <<phase, appData>>
     ELSE IF Accepts(r.v)
     THEN /\ alertMsg' = ImportOk
          /\ appData' = ImportedStore(appData, r.v)
          /\ phase' = "pending"
     ELSE /\ alertMsg' = ""
          /\ UNCHANGED <<phase, appData>>

FileLoaded == \E file \in ImportFiles : readerOnload(file)

\* the scheduled render and the effect after it
Render ==
  /\ phase = "pending"
  /\ Commit(appData, nextId)
  /\ alertMsg' = ""
  /\ effect' = NoEffect
  /\ UNCHANGED <<currentDate, selectedDate, saveVars, aiVars, edits>>

RaceNext ==
  \/ Mount
  \/ TypeText
  \/ ClickDay
  \/ FileLoaded
  \/ Render

RaceSpec == Init /\ [][RaceNext]_vars

(***************************************************************************)
(* Properties.                                                             *)
(***************************************************************************)
HasPlan(ad, d) == ad.t = "obj" /\ d \in DOMAIN ad.m
IsBlank(g) == g.time = "" /\ g.league = "" /\ g.match = "" /\ g.status = "pending"

\* a step of setEntryField, addEntry, removeEntry or confirmed clearDay
EditStep == TypeText \/ ToggleStatus \/ handleAddGame \/ RemoveGame \/ handleClearDay(TRUE)
\* a step that hands a new store to setAppData
MutationStep == EditStep \/ (Import /\ alertMsg' = ImportOk)

\* C1: after every call of handleAddGame, handleRemoveGame, handleUpdateGame or
\* confirmed handleClearDay, the DayPlan stored under the selected date has at
\* least one entry.
C1_EntriesNeverEmpty ==
  [][EditStep => /\ HasPlan(appData', selectedDate)
                 /\ Len(appData'.m[selectedDate].games) >= 1]_vars

\* the last entry of the selected day was removed (or the day cleared): the stored
\* plan holds the one blank entry made for it, with the identifier handed out last
C1_Witness ==
  /\ phase = "running"
  /\ nextId > 1
  /\ HasPlan(appData, selectedDate)
  /\ appData.m[selectedDate].games = <<createNewGame(Uuid(nextId - 1))>>
  /\ backing = Item(Serialize(appData))

\* C2 (as claimed): when the plan stored for the selected date has no entries, the
\* plan shown for it (selectedDayPlan) has exactly one blank entry.
C2_EmptyDayShowsBlank ==
  (phase = "running" /\ HasPlan(appData, selectedDate)
     /\ appData.m[selectedDate].games = <<>>)
  => (Len(selectedDayPlan.games) = 1 /\ IsBlank(selectedDayPlan.games[1]))

C4_FailedSaveReported ==
  [][handleManualSave(FALSE) => (alertMsg' # "" /\ saveStatus' = "idle")]_vars

\* C5: a manual save starts only from 'idle' and writes the current store at once;
\* saveStatus changes only idle -> saving -> saved -> idle; and once the write has
\* succeeded it returns to 'idle' (for as long as the component stays mounted).
C5_SaveCycle ==
  /\ [][ManualSave => saveStatus = "idle"]_vars
  /\ [][handleManualSave(TRUE) => backing' = Item(Serialize(appData))]_vars
  /\ [][saveStatus' # saveStatus =>
          <<saveStatus, saveStatus'>> \in
            {<<"idle", "saving">>, <<"saving", "saved">>, <<"saved", "idle">>}]_vars
  /\ (saveStatus = "saving" /\ saveTimer = "t800") ~> (saveStatus = "idle" \/ Crashed)

\* half way through the cycle: the write is done, 'saved' is shown, the last timer runs
C5_Witness ==
  /\ phase = "running"
  /\ saveStatus = "saved"
  /\ saveTimer = "t2000"
  /\ backing = Item(Serialize(appData))

\* C6 (as claimed): when the write that follows a store mutation throws, the error
\* is caught: the application keeps running and the store keeps the mutated value.
C6_AutosaveFailureNonFatal ==
  [][MutationStep => phase' # "effectError"]_vars

\* C7 (as claimed): with no stored value, or one that does not parse, the store
\* starts as the empty mapping and the initializer does not throw.
C7_StartupFallsBackToEmpty ==
  [][(Mount /\ (~backing.present \/ ~Parse(backing.text).ok))
       => (appData' = EmptyStore /\ phase' # "initError")]_vars

\* C8 (as claimed): a file that does not parse leaves the store and the backing
\* store as they were and shows the failure message; and an import that neither
\* replaces the store nor reports success reports the failure.
C8_ImportFailureReported ==
  [][\A file \in ImportFiles :
       importData(file) =>
         /\ ~ParsedFiles[file].ok =>
              (appData' = appData /\ backing' = backing /\ alertMsg' = ImportError)
         /\ (appData' = appData /\ alertMsg' # ImportOk) => alertMsg' = ImportError]_vars

\* C9 (as claimed): after an import the store is a mapping, and rendering the
\* selected date does not throw.
C9_ImportKeepsStoreAMapping ==
  [][Import => (appData'.t = "obj" /\ phase' # "renderError")]_vars

\* C10 (as claimed): whenever the file parses, the store after the import is the
\* parsed value.
C10_ParsedValueReplacesStore ==
  [][\A file \in ImportFiles :
       (importData(file) /\ ParsedFiles[file].ok) => appData' = ParsedFiles[file].v]_vars

\* C10 (amended): when the file parses to a value whose typeof is 'object' (a
\* mapping, an array or null) the store after the import is exactly the parsed
\* value, nothing of the previous store surviving; when it parses to anything
\* else, or does not parse, the store is left as it was.
C10_ObjectValueReplacesStore ==
  [][\A file \in ImportFiles :
       importData(file) =>
         IF ParsedFiles[file].ok /\ TypeofIsObject(ParsedFiles[file].v)
         THEN appData' = ParsedFiles[file].v
         ELSE appData' = appData]_vars

\* a day was edited, then the backup holding only d2 was imported: d1 is gone
C10_Witness ==
  /\ alertMsg = ImportOk
  /\ edits = 1
  /\ selectedDate = "d1"
  /\ appData = EmptyGamesStore

\* the identifiers of the entries of a plan, and of every plan of a store
IdsOf(plan) == {plan.games[i].id : i \in 1..Len(plan.games)}
IdsIn(ad) == UNION {IdsOf(Spread(ad)[d]) : d \in DOMAIN Spread(ad)}
\* the identifiers randomUUID() has handed out so far
IdsHandedOut == {Uuid(k) : k \in 1..(nextId - 1)}
\* games without its i-th element, the others in their order
Without(games, i) ==
  [j \in 1..(Len(games) - 1) |-> IF j < i THEN games[j] ELSE games[j + 1]]
\* every date but the selected one holds in ad2 what it held in ad1
OtherDatesKept(ad1, ad2) ==
  /\ ad2.t = "obj"
  /\ DOMAIN ad2.m = DOMAIN Spread(ad1) \cup {selectedDate}
  /\ \A d \in DOMAIN Spread(ad1) \ {selectedDate} : ad2.m[d] = Spread(ad1)[d]

C17_ClearLeavesOneBlankEntry ==
  [][handleClearDay(TRUE) =>
       /\ OtherDatesKept(appData, appData')
       /\ LET plan == appData'.m[selectedDate]
          IN /\ plan.date = selectedDate
             /\ Len(plan.games) = 1
             /\ IsBlank(plan.games[1])
             /\ plan.games[1].id \notin IdsHandedOut \cup IdsIn(appData) \cup IdsOf(selectedDayPlan)]_vars

\* d2 was selected and cleared while d1 kept the entry it was loaded with
C17_Witness ==
  /\ phase = "running"
  /\ selectedDate = "d2"
  /\ appData.t = "obj"
  /\ DOMAIN appData.m = {"d1", "d2"}
  /\ appData.m["d1"].games = <<FilledGame>>
  /\ appData.m["d2"] = [date |-> "d2", games |-> <<createNewGame(Uuid(2))>>]
  /\ aiAnalysis = "null"
  /\ alertMsg = ClearPrompt

\* C20: whenever the application is running, the backing store holds the
\* serialization of the in-memory store: no mutation is left unwritten once its
\* write has succeeded (a write that throws ends the application, C6).
C20_BackingHoldsTheStore ==
  phase = "running" => backing = Item(Serialize(appData))

\* a backup was imported over an edited day and the backing store holds the result
C20_Witness ==
  /\ phase = "running"
  /\ edits = 1
  /\ alertMsg = ImportOk
  /\ appData = BackupStore
  /\ backing = Item(Serialize(BackupStore))

\* C14 (as claimed): from an empty store, handleAddGame on a date followed by
\* typing the description and the time of the added entry leaves that date with
\* exactly one entry: description 'A vs B', time '18:00', status 'pending'.
C14_ScenarioYieldsOneEntry ==
  (/\ phase = "running"
   /\ nextId = 3
   /\ edits = 2
   /\ HasPlan(appData, selectedDate)
   /\ \E i \in 1..Len(appData.m[selectedDate].games) :
        LET g == appData.m[selectedDate].games[i]
        IN g.id = Uuid(2) /\ g.match = "A vs B" /\ g.time = "18:00")
  => appData.m[selectedDate].games =
       <<[id |-> Uuid(2), time |-> "18:00", league |-> "", match |-> "A vs B",
          status |-> "pending"]>>

\* C14 (amended): on an empty store the day shown already holds one blank
\* placeholder entry, and handleAddGame appends to it: the date is stored with two
\* entries.  After typing the description and the time of the added entry the date
\* holds the blank placeholder entry first and, second, the added entry with
\* description 'A vs B', time '18:00', status 'pending'.
C14_ScenarioYieldsTwoEntries ==
  /\ [][(handleAddGame /\ appData = EmptyStore) =>
          /\ Len(selectedDayPlan.games) = 1
          /\ IsBlank(selectedDayPlan.games[1])
          /\ HasPlan(appData', selectedDate)
          /\ appData'.m[selectedDate].games =
               <<selectedDayPlan.games[1], createNewGame(Uuid(nextId))>>]_vars
  /\ []((/\ phase = "running"
         /\ nextId = 3
         /\ edits = 2
         /\ HasPlan(appData, selectedDate)
         /\ Len(appData.m[selectedDate].games) = 2
         /\ \E i \in 1..2 :
              LET g == appData.m[selectedDate].games[i]
              IN g.id = Uuid(2) /\ g.match = "A vs B" /\ g.time = "18:00")
        => appData.m[selectedDate].games =
             <<createNewGame(Uuid(1)),
               [id |-> Uuid(2), time |-> "18:00", league |-> "", match |-> "A vs B",
                status |-> "pending"]>>)

\* the end of the scenario: first start, add, description typed, time typed
C14_Witness ==
  /\ phase = "running"
  /\ edits = 2
  /\ selectedDate = Today
  /\ appData = JObj([d \in {Today} |->
       [date |-> Today,
        games |-> <<createNewGame(Uuid(1)),
                    [id |-> Uuid(2), time |-> "18:00", league |-> "", match |-> "A vs B",
                     status |-> "pending"]>>]])
  /\ backing = Item(Serialize(appData))

\* the fields of an entry, and the values handleUpdateGame is called with
EntryFields == {EntryKeys[i] : i \in 1..Len(EntryKeys)}
FieldValues(field) ==
  IF field = "status" THEN {"pending", "win", "loss"} ELSE TextValues[field]

SomeMatch(plan) == \E i \in 1..Len(plan.games) : plan.games[i].match # ""
\* one line for every entry with a description
LinesByMatch(plan) ==
  LET kept == SelectSeq(plan.games, LAMBDA g : g.match # "")
  IN [i \in 1..Len(kept) |-> PromptLine(kept[i])]

\* C11: for a plan in which no entry has a description, analyzeDayPicks returns
\* the fixed 'nothing to analyze' message and sends no request.
C11_NothingToAnalyze ==
  [][(handleAiAnalyze /\ ~SomeMatch(selectedDayPlan)) =>
       /\ aiAnalysis' = NothingMsg
       /\ request' = NoRequest
       /\ isAnalyzing' = FALSE]_vars

\* a day with one entry that has a category and no description was analyzed
C11_Witness ==
  /\ aiAnalysis = NothingMsg
  /\ request = NoRequest
  /\ Len(selectedDayPlan.games) = 1
  /\ selectedDayPlan.games[1].league = "L"
  /\ selectedDayPlan.games[1].match = ""

\* C12 (as claimed): a click on the analyze button (enabled: some entry has a
\* description) sends exactly one request, whose prompt has one line for every
\* entry with a description, whatever its time and category.
C12_OneLinePerDescribedEntry ==
  [][ClickAnalyze =>
       /\ request'.sent
       /\ request'.lines = LinesByMatch(selectedDayPlan)]_vars

\* C13: a call that fails or returns no text ends with a fixed message and without
\* an error; whenever the call ends isAnalyzing is false again; isAnalyzing is
\* true exactly while a call is in flight; and neither the start nor the end of an
\* analysis changes the store or the backing store.
C13_AnalysisEndsQuietly ==
  /\ [][\A outcome \in Outcomes :
          AiResponse(outcome) =>
            /\ phase' = "running"
            /\ isAnalyzing' = FALSE
            /\ request' = NoRequest
            /\ outcome = "error" => aiAnalysis' = ConnErrMsg
            /\ outcome = "empty" => aiAnalysis' = NoTextMsg
            /\ outcome = "text" => aiAnalysis' = AnalysisText]_vars
  /\ [][(ClickAnalyze \/ AiResponds) => (appData' = appData /\ backing' = backing)]_vars
  /\ [](isAnalyzing <=> request.sent)

\* a call has failed: the fixed message is shown and the button is enabled again
C13_Witness ==
  /\ phase = "running"
  /\ aiAnalysis = ConnErrMsg
  /\ isAnalyzing = FALSE
  /\ request = NoRequest

\* C18: handleClearDay discards the entries of the day only when window.confirm
\* returned true; when the user declines, the store, the backing store, the plan
\* shown and the analysis shown are all as they were.
C18_ClearNeedsConfirmation ==
  /\ [][handleClearDay(FALSE) =>
          /\ appData' = appData
          /\ backing' = backing
          /\ selectedDayPlan' = selectedDayPlan
          /\ aiAnalysis' = aiAnalysis
          /\ phase' = phase]_vars
  /\ [][(ClearDay /\ appData' # appData) => handleClearDay(TRUE)]_vars

\* the question was asked and declined: the loaded entry and the analysis are still there
C18_Witness ==
  /\ phase = "running"
  /\ alertMsg = ClearPrompt
  /\ aiAnalysis = AnalysisText
  /\ selectedDate = "d1"
  /\ appData = BackupStore
  /\ selectedDayPlan.games = <<FilledGame>>

\* a step of an operation that only reads the store
ReadStep ==
  \/ ClickDay
  \/ PrevMonth
  \/ NextMonth
  \/ ClickAnalyze
  \/ AiResponds
  \/ handleShare
  \/ exportData

\* C19: selecting a date (also one with no plan, for which a placeholder is
\* shown), moving the calendar, asking for an analysis, sharing and exporting
\* leave the store and the backing store as they are (no step that changes either
\* is a step of one of them); once the application runs, the store changes only
\* in a step of an editing handler or of an import.
C19_ReadsLeaveTheStore ==
  /\ [][(appData' # appData \/ backing' # backing) => ~ReadStep]_vars
  /\ [][(phase = "running" /\ appData' # appData) => (EditStep \/ Import)]_vars

\* a day with no plan is selected: a blank placeholder is shown, the store has no key for it
C19_Witness ==
  /\ phase = "running"
  /\ selectedDate = "d2"
  /\ appData = BackupStore
  /\ backing = Item(Serialize(BackupStore))
  /\ Len(selectedDayPlan.games) = 1
  /\ IsBlank(selectedDayPlan.games[1])
  /\ selectedDayPlan.date = "d2"

\* C24 (as claimed): an analysis is only ever put on display for the day it was
\* asked for: when the call in flight ends, the date it was made for is the
\* selected date, and otherwise its result is not shown.
C24_AnalysisShownForItsDay ==
  [][(AiResponds /\ aiAnalysis' # "null") => request.date = selectedDate]_vars

\* C21: importing the file exportData has just produced gives back the store that
\* was exported: the same dates, and under each the same entries, field for
\* field and in the same order; the import reports success.
C21_ExportImportRoundTrip ==
  [][ImportExported => (appData' = appData /\ alertMsg' = ImportOk)]_vars

\* a day with two entries, one of them typed into, was exported and imported back
C21_Witness ==
  /\ phase = "running"
  /\ alertMsg = ImportOk
  /\ edits >= 1
  /\ HasPlan(appData, Today)
  /\ Len(appData.m[Today].games) = 2
  /\ appData.m[Today].games[2].match = "A vs B"
  /\ backing = Item(Serialize(appData))

\* C22 (as claimed): in every state, each plan of the store carries the date it
\* is stored under.
C22_KeyAndDateAgree ==
  appData.t = "obj" => \A k \in DOMAIN appData.m : appData.m[k].date = k

\* C23 (as claimed): an edit issued after an import has completed and before the
\* view is redrawn is computed from the store the import left: the plan of the
\* selected date is the imported plan with one field of one entry changed.
C23_EditAfterImportKeepsBoth ==
  [][(/\ phase = "pending"
      /\ edits' # edits
      /\ HasPlan(appData, selectedDate)
      /\ appData.m[selectedDate].games # <<>>)
     => /\ HasPlan(appData', selectedDate)
        /\ \E index \in 1..Len(appData.m[selectedDate].games), field \in TextFields :
             \E value \in TextValues[field] :
               appData'.m[selectedDate] =
                 UpdatedPlan(appData.m[selectedDate], index, field, value)]_vars

====
